---- MODULE Spec2Model ----
(***************************************************************************)
(* A model of bingx_async_collector.py: the reconnecting WebSocket         *)
(* producer (connect / listen / decompress / handle_message /              *)
(* parse_candle), the asyncio queue, and the CandleConsumer (run /         *)
(* process).  Both coroutines run on one event loop, so each action is the *)
(* code between two suspension points (await) of one coroutine.            *)
(***************************************************************************)
EXTENDS Integers, Sequences, FiniteSets, TLC

(***************************************************************************)
(* Bounds of the model.                                                    *)
(***************************************************************************)
\* frames the feed delivers in one behaviour of Spec
MaxFrames == 2
\* candles the feed delivers in one behaviour of SpecAgg
MaxCandles == 5
\* connection attempts (calls of websockets.connect) in one behaviour
MaxConns == 2
\* elements of a data array
MaxBatch == 3
\* candle fields of a parse_candle input that differ from the plain well-formed value
MaxDeviations == 1

(***************************************************************************)
(* JSON values, as json.loads returns them.  Every value is a record       *)
(* [k, n]: k is the Python type, n the number it carries (the length for a *)
(* plain string).  JNumStr(n) is a string spelling the integer n ("100");  *)
(* JTextStr is a non-empty string that spells no number ("abc");           *)
(* JAbsent marks a key that the object does not have.                      *)
(*                                                                         *)
(* Timestamps are counted in units of 10^9 ms, so that the limit of        *)
(* datetime (year 9999) fits in the model's integers; see readable_time.   *)
(***************************************************************************)
JAbsent == [k |-> "absent", n |-> 0]
JNull == [k |-> "null", n |-> 0]
JNum(n) == [k |-> "num", n |-> n]
JNumStr(n) == [k |-> "numstr", n |-> n]
JTextStr == [k |-> "str", n |-> 3]
JEmptyStr == [k |-> "str", n |-> 0]
JBool(b) == [k |-> "bool", n |-> IF b THEN 1 ELSE 0]
JList == [k |-> "list", n |-> 1]

\* Python truthiness of a value (the left operand of `or`, line 107)
Truthy(v) ==
    CASE v.k \in {"absent", "null"} -> FALSE
      [] v.k \in {"num", "bool", "str"} -> v.n # 0
      [] OTHER -> TRUE

\* the outcome of an expression: a value, or the exception it raises
Ok(x) == [exc |-> "none", val |-> x]
Raise(e) == [exc |-> e, val |-> 0]

\* int(v), line 107
PyInt(v) ==
    CASE v.k \in {"num", "numstr", "bool"} -> Ok(v.n)
      [] v.k = "str" -> Raise("ValueError")
      [] OTHER -> Raise("TypeError")

\* float(v), lines 110-114 (floats are modelled by the integers they equal)
PyFloat(v) ==
    CASE v.k \in {"num", "numstr", "bool"} -> Ok(v.n)
      [] v.k = "str" -> Raise("ValueError")
      [] OTHER -> Raise("TypeError")

(***************************************************************************)
(* Candle items.  An item is a record [k, kline, top]:                     *)
(*   k     "obj" for a JSON object, else "num" / "str" / "null";           *)
(*   kline the value under key "kline": [k |-> "absent"], an object        *)
(*         [k |-> "obj", f |-> fields] or a non-object [k |-> "null"];     *)
(*   top   the candle fields at the top level of the object.               *)
(* Fields are a function from Keys to JSON values (JAbsent: no such key).  *)
(***************************************************************************)
Keys == {"t", "T", "o", "h", "l", "c", "v"}
NumKeys == {"o", "h", "l", "c", "v"}
NoFields == [x \in Keys |-> JAbsent]
NoKline == [k |-> "absent", f |-> NoFields]
KlineObj(f) == [k |-> "obj", f |-> f]
KlineNull == [k |-> "null", f |-> NoFields]
FlatItem(f) == [k |-> "obj", kline |-> NoKline, top |-> f]
NestedItem(f, top) == [k |-> "obj", kline |-> KlineObj(f), top |-> top]
ScalarItem(kind) == [k |-> kind, kline |-> NoKline, top |-> NoFields]

\* dict.get(key): None when the key is absent
DictGet(f, key) == IF f[key] = JAbsent THEN JNull ELSE f[key]

\* dict[key]: KeyError when the key is absent, then float() of the value
FloatOf(f, key) == IF f[key] = JAbsent THEN Raise("KeyError") ELSE PyFloat(f[key])

\* k.get("t") or k.get("T"), line 107
TimestampOf(f) ==
    IF Truthy(DictGet(f, "t")) THEN DictGet(f, "t") ELSE DictGet(f, "T")

\* k = data["kline"] if "kline" in data else data, line 106; the outcome is the
\* fields of the object k, or the exception raised by line 106 or by k.get
KlineOf_TopFirst(data) ==
    CASE data.k \in {"num", "null"} -> Raise("TypeError")
      [] data.k = "str" -> Raise("AttributeError")
      [] data.top # NoFields -> Ok(data.top)
      [] data.kline.k = "obj" -> Ok(data.kline.f)
      [] OTHER -> Raise("AttributeError")
KlineOf(data) ==
    CASE data.k \in {"num", "null"} -> Raise("TypeError")
      [] data.k = "str" -> Raise("AttributeError")
      [] data.kline.k = "absent" -> Ok(data.top)
      [] data.kline.k = "obj" -> Ok(data.kline.f)
      [] OTHER -> Raise("AttributeError")

Candle(o, h, l, c, v, ts) ==
    [open |-> o, high |-> h, low |-> l, close |-> c, volume |-> v, timestamp |-> ts]

\* the body of the try block, lines 106-116: the first exception raised wins
ParseBody_DefaultVolume(data) ==
    LET k == KlineOf(data) IN
    IF k.exc # "none" THEN Raise(k.exc) ELSE
    LET ts == PyInt(TimestampOf(k.val))
        o == FloatOf(k.val, "o")
        h == FloatOf(k.val, "h")
        l == FloatOf(k.val, "l")
        c == FloatOf(k.val, "c")
        v == IF k.val["v"] = JAbsent THEN Ok(0) ELSE FloatOf(k.val, "v")
    IN  CASE ts.exc # "none" -> Raise(ts.exc)
          [] o.exc # "none" -> Raise(o.exc)
          [] h.exc # "none" -> Raise(h.exc)
          [] l.exc # "none" -> Raise(l.exc)
          [] c.exc # "none" -> Raise(c.exc)
          [] v.exc # "none" -> Raise(v.exc)
          [] OTHER -> Ok(Candle(o.val, h.val, l.val, c.val, v.val, ts.val))
ParseBody(data) ==
    LET k == KlineOf(data) IN
    IF k.exc # "none" THEN Raise(k.exc) ELSE
    LET ts == PyInt(TimestampOf(k.val))
        o == FloatOf(k.val, "o")
        h == FloatOf(k.val, "h")
        l == FloatOf(k.val, "l")
        c == FloatOf(k.val, "c")
        v == FloatOf(k.val, "v")
    IN  CASE ts.exc # "none" -> Raise(ts.exc)
          [] o.exc # "none" -> Raise(o.exc)
          [] h.exc # "none" -> Raise(h.exc)
          [] l.exc # "none" -> Raise(l.exc)
          [] c.exc # "none" -> Raise(c.exc)
          [] v.exc # "none" -> Raise(v.exc)
          [] OTHER -> Ok(Candle(o.val, h.val, l.val, c.val, v.val, ts.val))

\* parse_candle, lines 104-119.  The outcome is [exc, ret, logs]: exc is the
\* exception that leaves the function ("none": it returned), ret the Optional
\* return value (<<>> is None, <<c>> a Candle), logs the records it logged.
parse_candle(data) ==
    LET r == ParseBody(data) IN
    IF r.exc = "none"
    THEN [exc |-> "none", ret |-> <<r.val>>, logs |-> <<>>]
    ELSE [exc |-> "none", ret |-> <<>>, logs |-> <<"error:Invalid candle format">>]

(***************************************************************************)
(* Inbound frames.  A frame is [gzip, raw]: gzip says whether the bytes    *)
(* are a gzip stream of UTF-8 text, raw is that text.  A text is           *)
(* [text, pingText, obj]:                                                  *)
(*   text      "empty", "garbage" (not JSON) or "json";                    *)
(*   pingText  whether the four letters ping occur in the text (line 74):  *)
(*             in a key, in a string value, anywhere;                      *)
(*   obj       what json.loads returns for it.                             *)
(* A decoded message is [k, ping, pingElem, dataType, data]:               *)
(*   k         "obj" (a JSON object), "seq" (a JSON string or array: `in`  *)
(*             is defined, subscripting by a key is not) or "scalar"       *)
(*             (number, true, false, null: `in` raises TypeError);         *)
(*   ping      the value under key "ping", JAbsent without the key;        *)
(*   pingElem  for a "seq": whether "ping" in obj holds;                   *)
(*   dataType  the value under "dataType": [k, kline], k one of "absent",  *)
(*             "str", "null"; kline: the string contains "kline";          *)
(*   data      the value under "data": [k, items], k one of "absent",      *)
(*             "list" (items: its elements) or "item" (items: <<value>>).  *)
(* A JSON text spells a key either literally or with \u escapes, so an     *)
(* object can hold the key "ping" while pingText is FALSE.                 *)
(***************************************************************************)
DtAbsent == [k |-> "absent", kline |-> FALSE]
DtStr(hasKline) == [k |-> "str", kline |-> hasKline]
DtNull == [k |-> "null", kline |-> FALSE]
NoData == [k |-> "absent", items |-> <<>>]
DataList(items) == [k |-> "list", items |-> items]
DataItem(item) == [k |-> "item", items |-> <<item>>]
ObjMsg(ping, dt, data) ==
    [k |-> "obj", ping |-> ping, pingElem |-> FALSE, dataType |-> dt, data |-> data]
SeqMsg(pingElem) ==
    [k |-> "seq", ping |-> JAbsent, pingElem |-> pingElem, dataType |-> DtAbsent,
     data |-> NoData]
ScalarMsg ==
    [k |-> "scalar", ping |-> JAbsent, pingElem |-> FALSE, dataType |-> DtAbsent,
     data |-> NoData]
JsonText(pingText, obj) == [text |-> "json", pingText |-> pingText, obj |-> obj]
GarbageText(pingText) == [text |-> "garbage", pingText |-> pingText, obj |-> ScalarMsg]
EmptyText == [text |-> "empty", pingText |-> FALSE, obj |-> ScalarMsg]
GzipFrame(raw) == [gzip |-> TRUE, raw |-> raw]
BadFrame == [gzip |-> FALSE, raw |-> EmptyText]

\* outbound frames: the subscribe frame (lines 21-25, 50) and a pong (line 78)
SUBSCRIBE_MSG == [type |-> "sub", tok |-> JNull]
PongFrame(tok) == [type |-> "pong", tok |-> tok]

\* decompress, lines 57-63: the text, or "" and an error record
decompress(message) ==
    IF message.gzip
    THEN [ret |-> message.raw, logs |-> <<>>]
    ELSE [ret |-> EmptyText, logs |-> <<"error:Decompression error">>]

\* json.loads(raw), lines 76 and 86
JsonLoads(raw) == IF raw.text = "json" THEN Ok(raw.obj) ELSE Raise("JSONDecodeError")

\* key in obj, lines 77 and 87
PingIn(obj) ==
    CASE obj.k = "obj" -> Ok(obj.ping # JAbsent)
      [] obj.k = "seq" -> Ok(obj.pingElem)
      [] OTHER -> Raise("TypeError")

\* "data" not in obj or "dataType" not in obj or "kline" not in obj["dataType"],
\* line 87 (a JSON string or array of the model holds neither word)
NotKline(obj) ==
    CASE obj.k = "scalar" -> Raise("TypeError")
      [] obj.k = "seq" -> Ok(TRUE)
      [] obj.data.k = "absent" -> Ok(TRUE)
      [] obj.dataType.k = "absent" -> Ok(TRUE)
      [] obj.dataType.k = "str" -> Ok(~obj.dataType.kline)
      [] OTHER -> Raise("TypeError")

\* the loop ended by the first item that does not parse
RECURSIVE PutAll_StopAtFailure(_)
PutAll_StopAtFailure(items) ==
    IF items = <<>> THEN [exc |-> "none", puts |-> <<>>, logs |-> <<>>] ELSE
    LET p == parse_candle(Head(items)) IN
    IF p.exc # "none" \/ p.ret = <<>>
    THEN [exc |-> p.exc, puts |-> <<>>, logs |-> p.logs] ELSE
    LET rest == PutAll_StopAtFailure(Tail(items)) IN
    [exc |-> rest.exc, puts |-> p.ret \o rest.puts, logs |-> p.logs \o rest.logs]

\* the loop of lines 92-95 and the single call of lines 97-99: parse each item in
\* turn and put each candle; an exception leaving parse_candle ends the loop
RECURSIVE PutAll(_)
PutAll(items) ==
    IF items = <<>> THEN [exc |-> "none", puts |-> <<>>, logs |-> <<>>] ELSE
    LET p == parse_candle(Head(items)) IN
    IF p.exc # "none" THEN [exc |-> p.exc, puts |-> <<>>, logs |-> p.logs] ELSE
    LET rest == PutAll(Tail(items)) IN
    [exc |-> rest.exc, puts |-> p.ret \o rest.puts, logs |-> p.logs \o rest.logs]

\* asyncio.Queue() of line 147: maxsize is its default 0, which asyncio takes
\* as no limit; Queue.full() is what makes a put suspend
maxsize == 0
QueueFull(q) == maxsize > 0 /\ Len(q) >= maxsize
\* the outcome of handle_message up to its first suspension point:
\*   pong  <<>>, or <<frame>> when the coroutine is suspended in ws.send (line 78)
\*   puts  the candles put on the queue, in order (queue.put never suspends on
\*         the unbounded queue of line 147)
\*   logs  the records logged
Handled(pong, puts, logs) == [pong |-> pong, puts |-> puts, logs |-> logs]

\* the ping branch answering a text that is no JSON
PingBranch_PongOnError(raw) ==
    LET obj == JsonLoads(raw) IN
    IF obj.exc # "none"
    THEN Handled(<<PongFrame(JNull)>>, <<>>, <<"warning:Ping error">>) ELSE
    LET has == PingIn(obj.val) IN
    CASE has.exc # "none" -> Handled(<<>>, <<>>, <<"warning:Ping error">>)
      [] has.val /\ obj.val.k = "seq" -> Handled(<<>>, <<>>, <<"warning:Ping error">>)
      [] has.val -> Handled(<<PongFrame(obj.val.ping)>>, <<>>, <<>>)
      [] OTHER -> Handled(<<>>, <<>>, <<>>)
\* lines 74-83
PingBranch(raw) ==
    LET obj == JsonLoads(raw) IN
    IF obj.exc # "none" THEN Handled(<<>>, <<>>, <<"warning:Ping error">>) ELSE
    LET has == PingIn(obj.val) IN
    CASE has.exc # "none" -> Handled(<<>>, <<>>, <<"warning:Ping error">>)
      [] has.val /\ obj.val.k = "seq" -> Handled(<<>>, <<>>, <<"warning:Ping error">>)
      [] has.val -> Handled(<<PongFrame(obj.val.ping)>>, <<>>, <<>>)
      [] OTHER -> Handled(<<>>, <<>>, <<>>)

\* lines 85-102
DataBranch(raw) ==
    LET obj == JsonLoads(raw) IN
    IF obj.exc # "none"
    THEN Handled(<<>>, <<>>, <<"error:Failed to parse message">>) ELSE
    LET skip == NotKline(obj.val) IN
    CASE skip.exc # "none" -> Handled(<<>>, <<>>, <<"error:Failed to parse message">>)
      [] skip.val -> Handled(<<>>, <<>>, <<>>)
      [] OTHER ->
           LET r == PutAll(obj.val.data.items) IN
           Handled(<<>>, r.puts,
                   r.logs \o (IF r.exc # "none"
                              THEN <<"error:Failed to parse message">> ELSE <<>>))

\* handle_message, lines 70-102
handle_message(raw) ==
    CASE raw.text = "empty" -> Handled(<<>>, <<>>, <<>>)
      [] raw.pingText -> PingBranch(raw)
      [] OTHER -> DataBranch(raw)

(***************************************************************************)
(* The consumer.                                                           *)
(***************************************************************************)
\* datetime.utcfromtimestamp accepts the years 1..9999: the seconds
\* -62135596800 .. 253402300799.  A timestamp of u units is u * 10^6 seconds,
\* inside that range exactly when MinUtcUnits <= u <= MaxUtcUnits.
MinUtcUnits == -62135
MaxUtcUnits == 253402

\* Candle.readable_time, lines 37-38: the formatted time (modelled by the
\* timestamp it spells), or ValueError beyond the range of datetime
readable_time(candle) ==
    IF MinUtcUnits <= candle.timestamp /\ candle.timestamp <= MaxUtcUnits
    THEN Ok(candle.timestamp)
    ELSE Raise("ValueError")

\* the condition of line 134; last is the Optional last_candle
ClosesInterval(last, candle) ==
    last # <<>> /\ candle.timestamp # last[1].timestamp

\* process with the assignment of line 143 skipped on the reporting path
process_KeepHeld(last, candle) ==
    IF ClosesInterval(last, candle)
    THEN LET t == readable_time(last[1]) IN
         IF t.exc # "none"
         THEN [exc |-> t.exc, report |-> <<>>, last |-> last]
         ELSE [exc |-> "none", report |-> <<last[1]>>, last |-> last]
    ELSE [exc |-> "none", report |-> <<>>, last |-> <<candle>>]

\* process reporting the candle just received instead of the one held
process_ReportNew(last, candle) ==
    IF ClosesInterval(last, candle)
    THEN LET t == readable_time(candle) IN
         IF t.exc # "none"
         THEN [exc |-> t.exc, report |-> <<>>, last |-> last]
         ELSE [exc |-> "none", report |-> <<candle>>, last |-> <<candle>>]
    ELSE [exc |-> "none", report |-> <<>>, last |-> <<candle>>]

\* CandleConsumer.process, lines 133-143.  The outcome is [exc, report, last]:
\* the exception that leaves it, the log lines emitted (each the candle
\* reported), and the new value of last_candle.
process(last, candle) ==
    IF ClosesInterval(last, candle)
    THEN LET t == readable_time(last[1]) IN
         IF t.exc # "none"
         THEN [exc |-> t.exc, report |-> <<>>, last |-> last]
         ELSE [exc |-> "none", report |-> <<last[1]>>, last |-> <<candle>>]
    ELSE [exc |-> "none", report |-> <<>>, last |-> <<candle>>]

(***************************************************************************)
(* State.                                                                  *)
(*   ppc         where BingXWebSocketProducer.connect is suspended:        *)
(*               "connect" (line 48), "subscribe" (line 50), "listen"      *)
(*               (line 66), "pong" (line 78), "sleep" (line 55),           *)
(*               "cancelled" (the task was cancelled by asyncio.run)       *)
(*   conns       calls of websockets.connect so far; the connection the    *)
(*               last one opened, if it did, is connection number conns    *)
(*   frames      frames received so far                                    *)
(*   sent        the frames sent on the current connection, in order       *)
(*   queue       the asyncio.Queue of line 147                             *)
(*   cpc         "run": CandleConsumer.run is suspended in queue.get;      *)
(*               "crashed": an exception left it                           *)
(*   last_candle the Optional field of line 125                            *)
(*   fed         history: the candles passed to process, in order          *)
(*   lastIdx     history: the position in fed of the candle last_candle    *)
(*               holds (0: none)                                           *)
(*   reports     the log lines of lines 136-142, in order: [idx, candle],  *)
(*               idx the position in fed of the candle reported            *)
(*   handled     history: the last frame received and what handling it     *)
(*               did: [conn, gzip, raw, sendCalls, puts, logs]: the   *)
(*               connection, whether the frame was gzip, the text handled, *)
(*               the frames handed to ws.send, the candles put, the        *)
(*               records logged                                            *)
(*   plog        the records logged by connect (lines 49, 51, 54), in      *)
(*               order                                                     *)
(*   timer       the delay of the asyncio.sleep the producer is suspended  *)
(*               in (line 55), 0 when it is not sleeping                   *)
(*   faults      history: the exceptions that reached line 53 so far       *)
(*   waits       history: the delays of the sleeps that returned, in order *)
(*   enqueued    history: every candle put on the queue, in order, with    *)
(*               the connection its frame came from                        *)
(***************************************************************************)
VARIABLES ppc, conns, frames, sent, queue, cpc, last_candle, fed, lastIdx,
          reports, handled, plog, timer, faults, waits, enqueued

vars == <<ppc, conns, frames, sent, queue, cpc, last_candle, fed, lastIdx,
          reports, handled, plog, timer, faults, waits, enqueued>>
connVars == <<plog, timer, faults, waits>>
producerVars == <<ppc, conns, frames, sent, handled, plog, timer, faults, waits,
                  enqueued>>
consumerVars == <<cpc, last_candle, fed, lastIdx, reports>>

NothingHandled ==
    [conn |-> 0, gzip |-> FALSE, raw |-> EmptyText,
     sendCalls |-> <<>>, puts |-> <<>>, logs |-> <<>>]

Init ==
    /\ ppc = "connect"
    /\ conns = 0
    /\ frames = 0
    /\ sent = <<>>
    /\ queue = <<>>
    /\ cpc = "run"
    /\ last_candle = <<>>
    /\ fed = <<>>
    /\ lastIdx = 0
    /\ reports = <<>>
    /\ handled = NothingHandled
    /\ plog = <<>>
    /\ timer = 0
    /\ faults = 0
    /\ waits = <<>>
    /\ enqueued = <<>>

(***************************************************************************)
(* BingXWebSocketProducer.connect, lines 45-55                             *)
(***************************************************************************)
\* the argument of asyncio.sleep, line 55
BACKOFF == 5

\* the handler of line 53 with a delay that grows with the faults
Backoff_Growing ==
    /\ faults' = faults + 1
    /\ plog' = Append(plog, "warning:WebSocket error")
    /\ timer' = BACKOFF * (faults + 1)
    /\ ppc' = "sleep"
    /\ UNCHANGED waits
\* except Exception (lines 53-55): the warning is logged and the producer is
\* suspended in asyncio.sleep(BACKOFF)
Backoff ==
    /\ faults' = faults + 1
    /\ plog' = Append(plog, "warning:WebSocket error")
    /\ timer' = BACKOFF
    /\ ppc' = "sleep"
    /\ UNCHANGED waits

\* websockets.connect succeeds (line 48)
Opened ==
    /\ ppc = "connect"
    /\ conns < MaxConns
    /\ conns' = conns + 1
    /\ sent' = <<>>
    /\ plog' = Append(plog, "info:WebSocket connected")
    /\ ppc' = "subscribe"
    /\ UNCHANGED <<frames, handled, queue, enqueued, timer, faults, waits>>
    /\ UNCHANGED consumerVars

\* websockets.connect raises (line 48): warning, then sleep (lines 53-55)
OpenFail ==
    /\ ppc = "connect"
    /\ conns < MaxConns
    /\ conns' = conns + 1
    /\ Backoff
    /\ UNCHANGED <<frames, sent, handled, queue, enqueued>>
    /\ UNCHANGED consumerVars

\* connect going on to listen without the send of line 50
SubscribeSent_Skipped ==
    /\ ppc = "subscribe"
    /\ plog' = Append(plog, "info:Subscribed")
    /\ ppc' = "listen"
    /\ UNCHANGED <<conns, frames, sent, handled, queue, enqueued, timer, faults, waits>>
    /\ UNCHANGED consumerVars
\* ws.send of the subscribe frame returns (line 50)
SubscribeSent ==
    /\ ppc = "subscribe"
    /\ sent' = Append(sent, SUBSCRIBE_MSG)
    /\ plog' = Append(plog, "info:Subscribed")
    /\ ppc' = "listen"
    /\ UNCHANGED <<conns, frames, handled, queue, enqueued, timer, faults, waits>>
    /\ UNCHANGED consumerVars

\* ws.send of the subscribe frame raises (line 50): the connection is left
SubscribeFail ==
    /\ ppc = "subscribe"
    /\ Backoff
    /\ UNCHANGED <<conns, frames, sent, handled, queue, enqueued>>
    /\ UNCHANGED consumerVars

\* asyncio.sleep(5) returns (line 55)
Wake ==
    /\ ppc = "sleep"
    /\ waits' = Append(waits, timer)
    /\ timer' = 0
    /\ ppc' = "connect"
    /\ UNCHANGED <<conns, frames, sent, handled, queue, enqueued, plog, faults>>
    /\ UNCHANGED consumerVars

(***************************************************************************)
(* BingXWebSocketProducer.listen, lines 65-68                              *)
(***************************************************************************)
\* a frame arrives: decompress it and run handle_message to its end or to
\* the ws.send in which it is suspended
Receive(message) ==
    /\ ppc = "listen"
    /\ LET d == decompress(message)
           h == handle_message(d.ret)
       IN /\ frames' = frames + 1
          /\ queue' = queue \o h.puts
          /\ enqueued' = enqueued \o [i \in 1..Len(h.puts) |->
                                        [conn |-> conns, candle |-> h.puts[i]]]
          /\ handled' = [conn |-> conns, gzip |-> message.gzip, raw |-> d.ret,
                         sendCalls |-> h.pong, puts |-> h.puts,
                         logs |-> d.logs \o h.logs]
          /\ ppc' = IF h.pong # <<>> THEN "pong" ELSE "listen"
    /\ UNCHANGED <<conns, sent>>
    /\ UNCHANGED connVars
    /\ UNCHANGED consumerVars

\* ws.send of the pong returns (line 78): debug record, return (lines 79-80)
PongSent ==
    /\ ppc = "pong"
    /\ sent' = sent \o handled.sendCalls
    /\ handled' = [handled EXCEPT !.logs = @ \o <<"debug:Pong sent">>]
    /\ ppc' = "listen"
    /\ UNCHANGED <<conns, frames, queue, enqueued>>
    /\ UNCHANGED connVars
    /\ UNCHANGED consumerVars

\* ws.send of the pong raises (line 78): caught at line 81, warning, return
PongFail ==
    /\ ppc = "pong"
    /\ handled' = [handled EXCEPT !.logs = @ \o <<"warning:Ping error">>]
    /\ ppc' = "listen"
    /\ UNCHANGED <<conns, frames, sent, queue, enqueued>>
    /\ UNCHANGED connVars
    /\ UNCHANGED consumerVars

\* the iteration of line 66 raises (the connection failed): lines 53-55
ReadFail ==
    /\ ppc = "listen"
    /\ Backoff
    /\ UNCHANGED <<conns, frames, sent, handled, queue, enqueued>>
    /\ UNCHANGED consumerVars

\* connect sleeping after a clean end of the frame iteration as well
CleanClose_Sleeps ==
    /\ ppc = "listen"
    /\ timer' = BACKOFF
    /\ ppc' = "sleep"
    /\ UNCHANGED <<conns, frames, sent, handled, queue, enqueued, plog, faults, waits>>
    /\ UNCHANGED consumerVars
\* the iteration of line 66 ends (the peer closed the connection): listen
\* returns, the with block is left and the loop of line 46 goes round
CleanClose ==
    /\ ppc = "listen"
    /\ ppc' = "connect"
    /\ UNCHANGED <<conns, frames, sent, handled, queue, enqueued>>
    /\ UNCHANGED connVars
    /\ UNCHANGED consumerVars

(***************************************************************************)
(* CandleConsumer.run, lines 127-131                                       *)
(***************************************************************************)
\* history: a candle with its position in fed; process reads only .timestamp
Tagged(candle, idx) == [idx |-> idx, timestamp |-> candle.timestamp, candle |-> candle]
Untagged(opt) == [i \in 1..Len(opt) |-> opt[i].candle]

\* run taking the newest candle of the queue instead of the oldest
Consume_Newest ==
    /\ cpc = "run"
    /\ queue # <<>>
    /\ LET candle == queue[Len(queue)]
           held == [i \in 1..Len(last_candle) |-> Tagged(last_candle[i], lastIdx)]
           p == process(held, Tagged(candle, Len(fed) + 1))
       IN /\ queue' = SubSeq(queue, 1, Len(queue) - 1)
          /\ fed' = Append(fed, candle)
          /\ last_candle' = Untagged(p.last)
          /\ lastIdx' = IF p.last = <<>> THEN 0 ELSE p.last[1].idx
          /\ reports' = reports \o [i \in 1..Len(p.report) |->
                                      [idx |-> p.report[i].idx,
                                       candle |-> p.report[i].candle]]
          /\ cpc' = IF p.exc = "none" THEN "run" ELSE "crashed"
    /\ UNCHANGED producerVars
\* queue.get returns a candle and process runs (it has no suspension point)
Consume ==
    /\ cpc = "run"
    /\ queue # <<>>
    /\ LET candle == Head(queue)
           held == [i \in 1..Len(last_candle) |-> Tagged(last_candle[i], lastIdx)]
           p == process(held, Tagged(candle, Len(fed) + 1))
       IN /\ queue' = Tail(queue)
          /\ fed' = Append(fed, candle)
          /\ last_candle' = Untagged(p.last)
          /\ lastIdx' = IF p.last = <<>> THEN 0 ELSE p.last[1].idx
          /\ reports' = reports \o [i \in 1..Len(p.report) |->
                                      [idx |-> p.report[i].idx,
                                       candle |-> p.report[i].candle]]
          /\ cpc' = IF p.exc = "none" THEN "run" ELSE "crashed"
    /\ UNCHANGED producerVars

\* main, lines 146-157: the exception that left run leaves gather and main;
\* asyncio.run then cancels the producer task
Shutdown ==
    /\ cpc = "crashed"
    /\ ppc # "cancelled"
    /\ ppc' = "cancelled"
    /\ timer' = 0
    /\ UNCHANGED <<conns, frames, sent, handled, queue, enqueued, plog, faults, waits>>
    /\ UNCHANGED consumerVars

(***************************************************************************)
(* The inputs the feed is given in the checks.                             *)
(***************************************************************************)
\* a timestamp one unit beyond the range of datetime
TsBeyond == MaxUtcUnits + 1

\* the value a well-formed candle of the checks carries in each field
BaseValue(x) ==
    CASE x = "o" -> 2 [] x = "h" -> 4 [] x = "l" -> 1 [] x = "c" -> 3 [] OTHER -> 5

\* the flattened fields of a well-formed candle with timestamp ts under "t"
GoodFields(ts) ==
    [x \in Keys |-> CASE x = "t" -> JNum(ts)
                      [] x = "T" -> JAbsent
                      [] OTHER -> JNum(BaseValue(x))]
Good(ts) == FlatItem(GoodFields(ts))
GoodCandle(ts) == Candle(2, 4, 1, 3, 5, ts)
BadItem == FlatItem([GoodFields(100) EXCEPT !["c"] = JAbsent])

\* a field value of each kind
FieldValue(x, kind) ==
    CASE kind = "num" -> JNum(BaseValue(x))
      [] kind = "numstr" -> JNumStr(BaseValue(x))
      [] kind = "bool" -> JBool(TRUE)
      [] kind = "absent" -> JAbsent
      [] kind = "null" -> JNull
      [] kind = "str" -> JTextStr
      [] OTHER -> JList
DeviantKinds == {"numstr", "bool", "absent", "null", "str", "list"}
TsValues == {JAbsent, JNull, JNum(0), JNum(100), JNumStr(200), JTextStr}

\* the kinds of o, h, l, c, v in the parse_candle checks: at most
\* MaxDeviations of them not a plain number
FieldKinds ==
    {g \in [NumKeys -> DeviantKinds \cup {"num"}] :
        Cardinality({x \in NumKeys : g[x] # "num"}) <= MaxDeviations}

\* the fields of the parse_candle checks: any timestamp values under "t" and "T"
FieldsOf(g, t, tt) ==
    [x \in Keys |-> CASE x = "t" -> t
                      [] x = "T" -> tt
                      [] OTHER -> FieldValue(x, g[x])]

\* top-level fields that a nested item may carry beside its kline object
OtherTop == [x \in Keys |-> IF x = "T" THEN JAbsent ELSE JNum(9)]

\* an item of each shape: the fields flattened, nested under "kline", and
\* nested with other fields at the top level
ShapedItem(shape, f) ==
    CASE shape = "flat" -> FlatItem(f)
      [] shape = "nested" -> NestedItem(f, NoFields)
      [] OTHER -> NestedItem(f, OtherTop)
Shapes == {"flat", "nested", "nested+top"}

\* items that are no object, or whose "kline" is none
OddItems ==
    {[k |-> "obj", kline |-> KlineNull, top |-> GoodFields(100)],
     ScalarItem("num"), ScalarItem("str"), ScalarItem("null")}

KlineMsg(pingText, ping, data) == JsonText(pingText, ObjMsg(ping, DtStr(TRUE), data))

\* a kline message whose data is the single item
ItemFrame(item) == GzipFrame(KlineMsg(FALSE, JAbsent, DataItem(item)))

\* single well-formed candles, for the consumer
AggFrames ==
    {GzipFrame(KlineMsg(FALSE, JAbsent, DataItem(Good(ts)))) : ts \in {100, 200, TsBeyond}}

\* the data arrays of the dispatch checks
BatchItems == {Good(100), Good(200), BadItem}
Batches == UNION {[1..n -> BatchItems] : n \in 0..MaxBatch}

SysItems == {Good(100), Good(TsBeyond), BadItem, ScalarItem("null")}
SysData ==
    {NoData} \cup {DataItem(i) : i \in SysItems}
             \cup {DataList(<<>>), DataList(<<Good(TsBeyond), Good(100)>>),
                   DataList(<<Good(100), BadItem>>)}
FewData == {NoData, DataItem(Good(100))}
Tokens == {JTextStr, JNull, JNum(0)}

SysTexts ==
    \* no ping anywhere
    {KlineMsg(FALSE, JAbsent, d) : d \in SysData}
      \cup {JsonText(FALSE, ObjMsg(JAbsent, dt, d)) :
                dt \in {DtAbsent, DtStr(FALSE), DtNull}, d \in FewData}
    \* a keep-alive probe, with and without candle data beside it
      \cup {JsonText(TRUE, ObjMsg(tok, DtAbsent, NoData)) : tok \in Tokens}
      \cup {KlineMsg(TRUE, tok, DataItem(Good(100))) : tok \in Tokens}
    \* a probe whose key is spelled with an escape
      \cup {JsonText(FALSE, ObjMsg(JTextStr, DtAbsent, NoData)),
            KlineMsg(FALSE, JTextStr, DataItem(Good(100)))}
    \* no key ping, the letters ping elsewhere in the text
      \cup {JsonText(TRUE, ObjMsg(JAbsent, DtAbsent, NoData)),
            JsonText(TRUE, ObjMsg(JAbsent, DtStr(FALSE), DataItem(Good(100)))),
            KlineMsg(TRUE, JAbsent, DataItem(Good(100))),
            KlineMsg(TRUE, JAbsent, DataList(<<Good(100), Good(TsBeyond)>>))}
    \* JSON texts that are no object, and texts that are no JSON
      \cup {JsonText(b, SeqMsg(e)) : b \in BOOLEAN, e \in BOOLEAN}
      \cup {JsonText(FALSE, ScalarMsg), GarbageText(FALSE), GarbageText(TRUE), EmptyText}

SysFrames == {GzipFrame(r) : r \in SysTexts} \cup {BadFrame}

(***************************************************************************)
(* Specifications.                                                         *)
(***************************************************************************)
\* the whole program
Next ==
    \/ Opened
    \/ OpenFail
    \/ SubscribeSent
    \/ SubscribeFail
    \/ Wake
    \/ frames < MaxFrames /\ \E m \in SysFrames : Receive(m)
    \/ PongSent
    \/ PongFail
    \/ ReadFail
    \/ CleanClose
    \/ Consume
    \/ Shutdown

Spec == Init /\ [][Next]_vars

\* the consumer behind a feed of well-formed candles on a connection that stays up
NextAgg ==
    \/ Opened
    \/ SubscribeSent
    \/ frames < MaxCandles /\ \E m \in AggFrames : Receive(m)
    \/ Consume
    \/ Shutdown

SpecAgg == Init /\ [][NextAgg]_vars

\* the dispatch of a kline message on the first frame of a connection, over
\* every data array of at most MaxBatch elements and every single element
ReceiveBatch ==
    /\ frames = 0
    /\ ppc = "listen"
    /\ \/ \E l \in Batches : Receive(GzipFrame(KlineMsg(FALSE, JAbsent, DataList(l))))
       \/ \E item \in BatchItems : Receive(ItemFrame(item))

NextDispatch ==
    \/ Opened
    \/ SubscribeSent
    \/ ReceiveBatch
    \/ Consume

SpecDispatch == Init /\ [][NextDispatch]_vars

\* parse_candle on the first frame of a connection, over every shape, field
\* kinds and timestamp values, and over OddItems
ReceiveItem ==
    /\ frames = 0
    /\ ppc = "listen"
    /\ \/ \E sh \in Shapes, g \in FieldKinds, t \in TsValues, tt \in TsValues :
            Receive(ItemFrame(ShapedItem(sh, FieldsOf(g, t, tt))))
       \/ \E item \in OddItems : Receive(ItemFrame(item))

NextParse ==
    \/ Opened
    \/ SubscribeSent
    \/ ReceiveItem
    \/ Consume

SpecParse == Init /\ [][NextParse]_vars

\* the whole program behind a feed whose first frame does not decompress or
\* does not parse as JSON
FaultyFrames == {BadFrame, GzipFrame(GarbageText(FALSE)), GzipFrame(GarbageText(TRUE))}

NextFaulty ==
    \/ Opened
    \/ OpenFail
    \/ SubscribeSent
    \/ SubscribeFail
    \/ Wake
    \/ frames = 0 /\ \E m \in FaultyFrames : Receive(m)
    \/ frames \in 1..(MaxFrames - 1) /\ \E m \in SysFrames : Receive(m)
    \/ PongSent
    \/ PongFail
    \/ ReadFail
    \/ CleanClose
    \/ Consume
    \/ Shutdown

SpecFaulty == Init /\ [][NextFaulty]_vars

(***************************************************************************)
(* Properties of the consumer, checked under SpecAgg.                      *)
(***************************************************************************)
\* the reports that close detection owes for the candles s[j..]: one for each
\* s[j] whose successor carries another timestamp, in order
RECURSIVE ClosedIn(_, _)
ClosedIn(s, j) ==
    IF j >= Len(s) THEN <<>>
    ELSE (IF s[j].timestamp # s[j + 1].timestamp
          THEN <<[idx |-> j, candle |-> s[j]]>> ELSE <<>>) \o ClosedIn(s, j + 1)

Timestamps(s) == [j \in 1..Len(s) |-> s[j].timestamp]
Readable(ts) == MinUtcUnits <= ts /\ ts <= MaxUtcUnits
NonDecreasing(s) == \A j \in 1..(Len(s) - 1) : s[j].timestamp <= s[j + 1].timestamp

\* C1: for every sequence of candles passed to process, the reports are
\* exactly the candles that were held when a candle with another timestamp
\* arrived, in order: one report per adjacent timestamp change, each for the
\* last candle of the run that ended.
C1_CloseDetection == reports = ClosedIn(fed, 1)

\* what does hold: the same, while every timestamp passed is one that
\* readable_time can format; and the example of the claim
CloseDetectionInRange ==
    (\A j \in 1..Len(fed) : Readable(fed[j].timestamp)) => reports = ClosedIn(fed, 1)
CloseDetectionExample ==
    Timestamps(fed) = <<100, 100, 100, 200, 200>>
        => reports = <<[idx |-> 3, candle |-> fed[3]]>>

\* C2 as stated: no timestamp appears in two reports, whatever the order of
\* the timestamps.
C2_ExactlyOnce ==
    \A i, j \in DOMAIN reports :
        i # j => reports[i].candle.timestamp # reports[j].candle.timestamp

\* C2 amended: when the candles arrive in non-decreasing timestamp order, no
\* timestamp appears in two reports.
C2_OnceInOrder ==
    NonDecreasing(fed) =>
        \A i, j \in DOMAIN reports :
            i # j => reports[i].candle.timestamp # reports[j].candle.timestamp

C2_Witness == NonDecreasing(fed) /\ Len(reports) >= 2

\* C3: the candle processed last and the candle held in last_candle are never
\* among the reports, and a report is added only by a process call whose
\* candle carries another timestamp than the one held, and it is the one held.
NoFlushInv ==
    /\ \A i \in DOMAIN reports :
          /\ reports[i].idx # Len(fed)
          /\ last_candle # <<>> => reports[i].idx # lastIdx
    /\ last_candle # <<>> => lastIdx \in 1..Len(fed) /\ fed[lastIdx] = last_candle[1]
NoFlushStep ==
    reports' # reports =>
        /\ Len(fed') = Len(fed) + 1
        /\ last_candle # <<>>
        /\ fed'[Len(fed')].timestamp # last_candle[1].timestamp
        /\ reports' = Append(reports, [idx |-> lastIdx, candle |-> last_candle[1]])
C3_NoFlush == []NoFlushInv /\ [][NoFlushStep]_vars

C3_Witness ==
    /\ Len(fed) >= 3
    /\ queue = <<>>
    /\ reports # <<>>
    /\ last_candle = <<fed[Len(fed)]>>
    /\ fed[Len(fed) - 1].timestamp = fed[Len(fed)].timestamp

(***************************************************************************)
(* Properties of parse_candle, checked under SpecParse: the first frame is *)
(* a kline message whose data is the single item handled.                  *)
(***************************************************************************)
ItemHandled == frames = 1 /\ handled.raw.obj.data.k = "item"
HandledItem == handled.raw.obj.data.items[1]
InLog(logs, record) == \E i \in DOMAIN logs : logs[i] = record

\* the candle fields of an item: those of its kline sub-object when it has
\* one, else its own (none for an item that is no object)
ItemFields(item) ==
    CASE item.k # "obj" -> NoFields
      [] item.kline.k = "obj" -> item.kline.f
      [] OTHER -> item.top
\* a value that spells a number: a number, a numeric string, a Python bool
Numeric(v) == v.k \in {"num", "numstr", "bool"}
MissingOrNonNumeric(item) == \E x \in NumKeys : ~Numeric(ItemFields(item)[x])
NoUsableTimestamp(item) ==
    ~Numeric(ItemFields(item)["t"]) /\ ~Numeric(ItemFields(item)["T"])

\* C4: an item with one of o, h, l, c, v missing or non-numeric, or with no
\* usable timestamp key, makes parse_candle log and return None: nothing is
\* put on the queue, no exception reaches handle_message, the producer goes
\* on listening; and every candle put has its six fields from the payload.
C4_NoPartialCandles ==
    ItemHandled =>
        /\ MissingOrNonNumeric(HandledItem) \/ NoUsableTimestamp(HandledItem) =>
              /\ handled.puts = <<>>
              /\ queue = <<>> /\ fed = <<>>
              /\ parse_candle(HandledItem).exc = "none"
              /\ InLog(handled.logs, "error:Invalid candle format")
              /\ ~InLog(handled.logs, "error:Failed to parse message")
              /\ ppc = "listen"
        /\ \A i \in DOMAIN handled.puts :
              LET c == handled.puts[i]
                  f == ItemFields(HandledItem)
              IN /\ \A x \in NumKeys : Numeric(f[x])
                 /\ c.open = f["o"].n /\ c.high = f["h"].n /\ c.low = f["l"].n
                 /\ c.close = f["c"].n /\ c.volume = f["v"].n
                 /\ \/ Numeric(f["t"]) /\ c.timestamp = f["t"].n
                    \/ Numeric(f["T"]) /\ c.timestamp = f["T"].n

C4_Witness ==
    /\ ItemHandled
    /\ HandledItem.k = "obj"
    /\ ItemFields(HandledItem)["v"] = JAbsent
    /\ Numeric(ItemFields(HandledItem)["t"])
    /\ InLog(handled.logs, "error:Invalid candle format")

\* C5: with o, h, l, c, v well-formed and an integer under "t", under "T" or
\* under both, the candle put carries the value under "t" when "t" is
\* present, else the value under "T".
IntegerOrAbsent(v) == v = JAbsent \/ v.k = "num"
C5_TimestampKey ==
    LET f == ItemFields(HandledItem) IN
    /\ ItemHandled
    /\ HandledItem.k = "obj" /\ HandledItem.kline.k # "null"
    /\ ~MissingOrNonNumeric(HandledItem)
    /\ IntegerOrAbsent(f["t"]) /\ IntegerOrAbsent(f["T"])
    /\ f["t"] # JAbsent \/ f["T"] # JAbsent
    => /\ Len(handled.puts) = 1
       /\ handled.puts[1].timestamp = IF f["t"] # JAbsent THEN f["t"].n ELSE f["T"].n

\* what does hold: the same, for a value under "t" that is not 0
TimestampKeyNonZero ==
    ItemHandled /\ ItemFields(HandledItem)["t"] # JNum(0) => C5_TimestampKey

\* C6: an item with a kline sub-object is parsed as the flattened item with
\* the same fields is, whatever its top level holds: the same candle is put,
\* or none in both cases, with the same records logged.
C6_ShapeFallback ==
    ItemHandled /\ HandledItem.k = "obj" /\ HandledItem.kline.k = "obj" =>
        LET flat == handle_message(ItemFrame(FlatItem(HandledItem.kline.f)).raw) IN
        /\ handled.puts = flat.puts
        /\ handled.logs = flat.logs
        /\ fed \o queue = flat.puts

C6_Witness ==
    /\ ItemHandled
    /\ HandledItem.k = "obj"
    /\ HandledItem.kline.k = "obj"
    /\ HandledItem.top = OtherTop
    /\ Len(handled.puts) = 1
    /\ handled.puts[1].timestamp = 200

(***************************************************************************)
(* Properties of handle_message, checked under Spec (C7, C8, C9) and       *)
(* SpecDispatch (C10).                                                     *)
(***************************************************************************)
\* a frame was received and decompressed to a JSON text
JsonHandled == frames > 0 /\ handled.gzip /\ handled.raw.text = "json"
HandledObj == handled.raw.obj
\* the decoded message is a JSON object with a ping field
IsProbe(obj) == obj.k = "obj" /\ obj.ping # JAbsent

\* C7: for a JSON object with a ping field, handle_message hands exactly one
\* frame to ws.send, {pong: token}, on the connection the probe came from,
\* and puts no candle, whatever else the message carries.
C7_KeepAliveEcho ==
    JsonHandled /\ IsProbe(HandledObj) =>
        /\ handled.sendCalls = <<PongFrame(HandledObj.ping)>>
        /\ handled.puts = <<>>
        /\ ppc = "pong" => handled.conn = conns

\* what does hold: the same, for a text in which the key is spelled literally
KeepAliveEchoLiteral == handled.raw.pingText => C7_KeepAliveEcho

\* the items of the checks that are well-formed candles, and their candles
WellFormed(item) == \E ts \in {100, 200, TsBeyond} : item = Good(ts)
CandleOf(item) == GoodCandle(item.top["t"].n)
HoldsCandles(data) ==
    /\ data.k \in {"item", "list"}
    /\ data.items # <<>>
    /\ \A i \in DOMAIN data.items : WellFormed(data.items[i])

\* C8: a message is answered as a probe only when it is a JSON object with a
\* ping field, and every JSON object without a ping field whose dataType
\* contains "kline" and whose data holds well-formed candles has them put on
\* the queue, whatever text the payload holds.
C8_Classification ==
    JsonHandled =>
        /\ handled.sendCalls # <<>> => IsProbe(HandledObj)
        /\ /\ HandledObj.k = "obj"
           /\ HandledObj.ping = JAbsent
           /\ HandledObj.dataType = DtStr(TRUE)
           /\ HoldsCandles(HandledObj.data)
           => handled.puts = [i \in DOMAIN HandledObj.data.items |->
                                 CandleOf(HandledObj.data.items[i])]

\* what does hold: the same, for a text without the letters ping
ClassificationNoPingText == ~handled.raw.pingText => C8_Classification

\* a JSON object without a ping field that lacks data, lacks dataType, or
\* whose dataType does not contain "kline"
Irrelevant(raw) ==
    /\ raw.text = "json"
    /\ raw.obj.k = "obj"
    /\ raw.obj.ping = JAbsent
    /\ \/ raw.obj.data.k = "absent"
       \/ raw.obj.dataType.k = "absent"
       \/ ~(raw.obj.dataType.k = "str" /\ raw.obj.dataType.kline)

\* C9: handling such a message puts no candle, sends nothing, logs nothing
\* and leaves the producer listening on the same connection.
IrrelevantStep ==
    frames' = frames + 1 /\ handled'.gzip /\ Irrelevant(handled'.raw) =>
        /\ handled'.puts = <<>> /\ queue' = queue
        /\ handled'.sendCalls = <<>> /\ sent' = sent
        /\ handled'.logs = <<>>
        /\ ppc' = "listen" /\ conns' = conns
C9_IrrelevantFiltering == [][IrrelevantStep]_vars

\* what does hold: the same, for a dataType that is absent or a string
IrrelevantStringStep ==
    handled'.raw.obj.dataType.k # "null" => IrrelevantStep
IrrelevantFilteringOfStrings == [][IrrelevantStringStep]_vars

\* the candles that the dispatch owes for the items of the dispatch checks
RECURSIVE ExpectedPuts(_)
ExpectedPuts(items) ==
    IF items = <<>> THEN <<>>
    ELSE (IF WellFormed(Head(items)) THEN <<CandleOf(Head(items))>> ELSE <<>>)
             \o ExpectedPuts(Tail(items))

\* C10: for a kline message the candles put are those of the elements of
\* data that parse, in the order of the array, each once, the elements that
\* do not parse being skipped; a single object is put at most once.
C10_SequenceDispatch ==
    frames = 1 =>
        /\ handled.puts = ExpectedPuts(HandledObj.data.items)
        /\ fed \o queue = handled.puts
        /\ HandledObj.data.k = "item" => Len(handled.puts) <= 1

C10_Witness ==
    /\ frames = 1
    /\ HandledObj.data = DataList(<<Good(200), BadItem, Good(100)>>)
    /\ fed \o queue = <<GoodCandle(200), GoodCandle(100)>>

(***************************************************************************)
(* Properties of the connect loop, checked under Spec.                     *)
(***************************************************************************)
\* asyncio timers fire: a sleep that is not cancelled returns
SpecLive == Spec /\ WF_vars(Wake)

\* the connection is open and past the handshake
Listening == ppc \in {"listen", "pong"}

\* C11: the connect loop never terminates: the producer is always in its
\* loop (opening, subscribing, listening, answering or backing off), and
\* every connection it listens on was opened with the same subscribe frame.
C11_ReconnectLiveness ==
    /\ ppc \in {"connect", "subscribe", "listen", "pong", "sleep"}
    /\ Listening => sent # <<>> /\ sent[1] = SUBSCRIBE_MSG

\* what does hold: the same while no exception has left CandleConsumer.run;
\* and, timers firing, every backoff ends in a new open attempt unless the
\* producer was cancelled meanwhile
ReconnectWhileConsumerRuns == cpc = "run" => C11_ReconnectLiveness
BackoffEnds == (ppc = "sleep") ~> (ppc = "connect" \/ ppc = "cancelled")
ResumedAfterDrop ==
    /\ faults > 0 /\ conns = 2 /\ ppc = "listen"
    /\ handled.conn = 2 /\ handled.puts # <<>>
    /\ fed # <<>> /\ fed[Len(fed)] = handled.puts[Len(handled.puts)]

Warning == "warning:WebSocket error"
Count(log, record) == Cardinality({i \in DOMAIN log : log[i] = record})

\* C12: every exception that reaches line 53 is logged and puts the producer
\* in a sleep of BACKOFF, whatever the number of faults before it; every
\* sleep that returned lasted BACKOFF; and whenever the producer is back in
\* its loop, and at every call of websockets.connect, each fault so far has
\* been followed by one such sleep.
BackoffInv ==
    /\ \A i \in DOMAIN waits : waits[i] = BACKOFF
    /\ Count(plog, Warning) = faults
    /\ ppc = "sleep" => timer = BACKOFF /\ Len(waits) = faults - 1
    /\ ppc \in {"connect", "subscribe", "listen", "pong"} =>
          timer = 0 /\ Len(waits) = faults
BackoffStep ==
    /\ faults' # faults =>
          /\ faults' = faults + 1
          /\ plog' = Append(plog, Warning)
          /\ ppc' = "sleep" /\ timer' = BACKOFF
    /\ conns' # conns => ppc = "connect" /\ Len(waits) = faults
C12_FixedBackoff == []BackoffInv /\ [][BackoffStep]_vars

\* two consecutive open failures, each followed by its sleep
C12_Witness ==
    /\ plog = <<Warning, Warning>>
    /\ waits = <<BACKOFF, BACKOFF>>
    /\ ppc = "connect"

\* the subscribe frame went out on the current connection, first
Subscribed == sent # <<>> /\ sent[1] = SUBSCRIBE_MSG

\* C13: on every connection the subscribe frame is the first frame sent and
\* is sent once; while it has not been sent nothing was sent and no frame of
\* that connection was handled; and every step that handles an inbound
\* frame, puts a candle or sends a pong is taken on a connection on which
\* the subscribe frame was sent before.
HandshakeInv ==
    /\ ppc = "subscribe" => sent = <<>> /\ handled.conn # conns
    /\ Listening => Subscribed
    /\ \A i \in DOMAIN sent : (sent[i] = SUBSCRIBE_MSG) <=> (i = 1)
    /\ \A i \in DOMAIN enqueued : enqueued[i].conn \in 1..conns
HandshakeStep ==
    /\ \/ frames' # frames
       \/ enqueued' # enqueued
       \/ sent' # sent /\ sent' # <<>> /\ sent'[Len(sent')].type = "pong"
       => Subscribed /\ conns' = conns
    /\ sent' # sent =>
          \/ conns' # conns /\ sent' = <<>>
          \/ sent = <<>> /\ sent' = <<SUBSCRIBE_MSG>>
          \/ /\ Subscribed /\ Len(sent') = Len(sent) + 1
             /\ sent'[Len(sent')].type = "pong"
             /\ \A i \in DOMAIN sent : sent'[i] = sent[i]
C13_SubscribeFirst == []HandshakeInv /\ [][HandshakeStep]_vars

\* a reconnect: on the second connection the subscribe frame, then a pong,
\* and a candle of that connection on the queue
C13_Witness ==
    /\ conns = 2
    /\ ppc = "listen"
    /\ sent = <<SUBSCRIBE_MSG, PongFrame(JTextStr)>>
    /\ \E i \in DOMAIN enqueued : enqueued[i].conn = 2

\* C14: every step in which a send fails (the subscribe frame at line 50, a
\* pong at line 78) abandons the connection: it logs the fault and leaves
\* the producer in the backoff sleep, from which it reconnects.
SendFailureStep ==
    SubscribeFail \/ PongFail =>
        /\ ppc' = "sleep" /\ timer' = BACKOFF
        /\ plog' = Append(plog, Warning)
C14_SendFailureIsFault == [][SendFailureStep]_vars

\* what does hold: the same for the send of the subscribe frame
SubscribeFailureStep == SubscribeFail => SendFailureStep
SubscribeFailureIsFault == [][SubscribeFailureStep]_vars
\* and a failed pong send leaves the producer listening on the same
\* connection, with a warning of handle_message and no backoff
PongFailureStep ==
    PongFail =>
        /\ ppc' = "listen" /\ conns' = conns /\ sent' = sent
        /\ UNCHANGED connVars
        /\ InLog(handled'.logs, "warning:Ping error")
PongFailureIsSwallowed == [][PongFailureStep]_vars

(***************************************************************************)
(* Properties of the frame handling and of the hand-off, checked under     *)
(* SpecFaulty (C15), SpecAgg (C16) and Spec (C17, C18).                    *)
(***************************************************************************)
\* the frame just handled did not decompress, or its text is no JSON (with
\* or without the letters ping in it)
FaultyFrame(h) == ~h.gzip \/ h.raw.text = "garbage"

\* a step that receives such a frame puts nothing, sends nothing and hands
\* nothing to ws.send, logs the fault, and leaves the producer listening on
\* the same connection with no fault of the connection and no backoff
ContainmentStep ==
    frames' = frames + 1 /\ FaultyFrame(handled') =>
        /\ queue' = queue /\ enqueued' = enqueued /\ handled'.puts = <<>>
        /\ sent' = sent /\ handled'.sendCalls = <<>>
        /\ Len(handled'.logs) = 1
        /\ ppc = "listen" /\ ppc' = "listen" /\ conns' = conns
        /\ UNCHANGED connVars
        /\ UNCHANGED consumerVars
\* the frame that follows a first frame of that kind is handled as
\* handle_message handles it, and what it puts is all the queue ever held
FollowingFrame ==
    frames = 2 =>
        LET h == handle_message(handled.raw) IN
        /\ handled.puts = h.puts
        /\ handled.sendCalls = h.pong
        /\ enqueued = [i \in DOMAIN h.puts |-> [conn |-> handled.conn, candle |-> h.puts[i]]]
        /\ fed \o queue = h.puts
        /\ \A i \in DOMAIN sent : i > 1 => <<sent[i]>> = h.pong

\* C15: a frame that does not decompress, or whose text does not parse as
\* JSON (taken for a probe or not), is dropped alone: nothing is put or sent
\* for it, the connection stays open with no backoff, and the frame after
\* it is processed as if it had been the first.
C15_FrameFaultContained == [][ContainmentStep]_vars /\ []FollowingFrame

\* a frame that did not parse, then a candle received on the same connection
C15_Witness ==
    /\ frames = 2
    /\ conns = 1
    /\ faults = 0
    /\ handled.puts = <<GoodCandle(100)>>
    /\ fed = <<GoodCandle(100)>>

\* C16: the queue has a capacity, which the number of candles waiting in it
\* never exceeds (a put on the full queue suspending until a get).
C16_BoundedChannel == maxsize > 0 /\ Len(queue) <= maxsize

\* what does happen: the queue is never full, and with the consumer not yet
\* scheduled it holds every candle the feed delivered
NeverFull == ~QueueFull(queue)
StalledBacklog == fed = <<>> /\ Len(queue) = MaxCandles

\* the candles of a history of puts
Candles(puts) == [i \in DOMAIN puts |-> puts[i].candle]

\* C17: in every state the candles passed to process, followed by the
\* candles waiting in the queue, are the candles the producer put, in the
\* order of the puts: the sequence processed is a prefix of the sequence
\* enqueued, across connections.
C17_FifoHandOff == fed \o queue = Candles(enqueued)

\* two different candles, put on two connections, both processed
C17_Witness ==
    /\ Len(enqueued) = 2
    /\ enqueued[1].conn = 1 /\ enqueued[2].conn = 2
    /\ enqueued[1].candle # enqueued[2].candle
    /\ Len(fed) = 2

\* while the producer is suspended in the send of a pong it handles no frame,
\* and the suspension ends by the send returning or raising
PongStep ==
    ppc = "pong" =>
        /\ frames' = frames /\ enqueued' = enqueued
        /\ ppc' # "pong" =>
              /\ ppc' = "listen"
              /\ sent' = sent \o handled.sendCalls \/ sent' = sent
\* the send of a pong can return whatever the queue holds and whatever the
\* consumer did; a candle in the queue can be taken by the consumer wherever
\* the producer is suspended
Independent ==
    /\ ppc = "pong" => ENABLED PongSent
    /\ queue # <<>> => ENABLED Consume

\* C18: the pong of a probe is sent before any later frame is handled, its
\* send never depends on the consumer or on the queue, and the consumer can
\* take every candle of the queue while the producer is suspended in
\* connect, receive, send or sleep.
C18_KeepAliveIndependence == []Independent /\ [][PongStep]_vars

\* what does hold: the same, as long as no exception has left
\* CandleConsumer.run
IndependentWhileRunning == cpc = "run" => Independent
PongStepWhileRunning == cpc = "run" => PongStep
KeepAliveWhileConsumerRuns == []IndependentWhileRunning /\ [][PongStepWhileRunning]_vars
\* a pong sent with candles waiting and none processed; a candle processed
\* while the producer is in each of its suspensions
PongWithBacklog ==
    /\ sent = <<SUBSCRIBE_MSG, PongFrame(JTextStr)>>
    /\ Len(queue) = 2 /\ fed = <<>>
ConsumedWhileSending == ppc = "pong" /\ fed # <<>> /\ cpc = "run"
ConsumedWhileSleeping == ppc = "sleep" /\ fed # <<>> /\ queue = <<>>
\* the pong that is never sent: the producer cancelled in its send
PongDropped == ppc = "cancelled" /\ handled.sendCalls # <<>> /\ Len(sent) = 1

(***************************************************************************)
(* Properties of the consumer behind the queue, checked under SpecAgg.     *)
(***************************************************************************)
\* C19: for every candle that parse_candle produced and the producer put,
\* whatever its integer timestamp, processing it leaves CandleConsumer.run
\* in its loop and the producer in its own: no exception leaves run, and the
\* producer is never cancelled.
C19_AggregatorNeverStops == cpc = "run" /\ ppc # "cancelled"

\* what does hold: the same, while every timestamp passed to process is one
\* that readable_time can format
AggregatorRunsInRange ==
    (\A j \in 1..Len(fed) : Readable(fed[j].timestamp)) => C19_AggregatorNeverStops
\* the candles left in the queue when the consumer has stopped
StrandedCandles == ppc = "cancelled" /\ queue # <<>>

(***************************************************************************)
(* The clean end of a connection, checked under Spec.                      *)
(***************************************************************************)
\* the step in which listen returns: the producer is at websockets.connect
\* again with nothing logged, no fault counted and no sleep begun
CleanCloseStep ==
    ppc = "listen" /\ ppc' = "connect" =>
        /\ UNCHANGED connVars
        /\ UNCHANGED <<conns, sent, queue, enqueued>>
\* the producer begins a sleep only in a step in which an exception reached
\* line 53, and the sleep is not yet over when the producer is in it
SleepStep ==
    ppc # "sleep" /\ ppc' = "sleep" =>
        faults' = faults + 1 /\ plog' = Append(plog, Warning)
\* from websockets.connect the producer goes on by that call alone
ReopenStep ==
    ppc = "connect" /\ ppc' \notin {"connect", "cancelled"} =>
        conns' = conns + 1 /\ waits' = waits /\ ppc' \in {"subscribe", "sleep"}

\* C20: when the frame iteration ends without an exception, connect goes
\* round its loop to the next websockets.connect and the subscribe frame
\* with no warning logged and no sleep; a sleep is begun only by an
\* exception, so there are never more sleeps than faults.
C20_CleanCloseNoBackoff ==
    /\ [][CleanCloseStep /\ SleepStep /\ ReopenStep]_vars
    /\ [](Len(waits) <= faults /\ (faults = 0 => ppc # "sleep" /\ timer = 0))

\* a second connection, subscribed, reached with no fault and no sleep
C20_Witness ==
    /\ conns = 2
    /\ ppc = "listen"
    /\ sent = <<SUBSCRIBE_MSG>>
    /\ faults = 0 /\ waits = <<>>
    /\ plog = <<"info:WebSocket connected", "info:Subscribed",
                "info:WebSocket connected", "info:Subscribed">>

====
